---- MODULE Spec2Model ----
(***************************************************************************)
(* Model of app.py (bonus-logarte): the Streamlit script that loads the    *)
(* trip spreadsheet, cleans and filters it by date, computes the bonus of  *)
(* every trip and builds the summary tables.                               *)
(*                                                                         *)
(* Representation                                                          *)
(*   - a DataFrame is a sequence of rows; every row keeps its index label  *)
(*     (idx), as pandas does through filtering;                            *)
(*   - a cell that may be missing is a record with a flag na (NaN / NaT /  *)
(*     None) beside its value;                                             *)
(*   - a driver name is a sequence of one-character strings, so upper(),   *)
(*     strip() and the \b...\b regular expressions are computed character  *)
(*     by character;                                                       *)
(*   - a timestamp is a calendar day and a minute of that day; the days    *)
(*     are the days 1..MaxDay of one month;                                *)
(*   - money is in cents (TOTAL, BONUS), quantities in thousandths         *)
(*     (QUANT.), so round(2) is a real rounding.  numpy rounds half to     *)
(*     even; a tie is taken on the decimal value.                          *)
(***************************************************************************)
EXTENDS Integers, Sequences, FiniteSets, TLC

VARIABLES
    uploaded_files,       \* what the file_uploader widget holds in this run
    pc,                   \* position of the script
    dados_raw,            \* DataFrame returned by carregar_arquivos
    data_ini, data_fim,   \* the two date_input widgets
    dados_filtrados,      \* DataFrame returned by limpar_e_filtrar_dados
    tabela,               \* per driver and cost centre
    bonus_motorista,      \* per driver
    resumo_centro_custo,  \* per cost centre
    nome_periodo,         \* label of the period
    tabela_dias,          \* worked days per driver
    erro,                 \* message given to st.error / st.sidebar.error
    exibido,              \* what st.dataframe / st.pyplot / download showed
    calls                 \* functions called in this run, with the range

vars == <<uploaded_files, pc, dados_raw, data_ini, data_fim, dados_filtrados,
          tabela, bonus_motorista, resumo_centro_custo, nome_periodo,
          tabela_dias, erro, exibido, calls>>

-----------------------------------------------------------------------------
(* Bounds of the model *)

MaxRecs == 2
MaxDay == 2

Dias == 1..MaxDay

\* times of day a cell of DATA may carry: midnight and 14:30
Minutos == {0, 870}

-----------------------------------------------------------------------------
(* Cells *)

NaN == [na |-> TRUE, v |-> 0]
Num(n) == [na |-> FALSE, v |-> n]

NaText == [na |-> TRUE, s |-> <<>>]
Text(s) == [na |-> FALSE, s |-> s]

NaCentro == [na |-> TRUE, s |-> ""]

\* a cell of DATA: a Timestamp ("ts"), a missing value ("nat"), or, before
\* pd.to_datetime, a text that is no date ("txt")
NaT == [kind |-> "nat", dia |-> 0, min |-> 0]
Timestamp(d, m) == [kind |-> "ts", dia |-> d, min |-> m]
TextoNaoData == [kind |-> "txt", dia |-> 0, min |-> 0]

IsNaT(cell) == cell.kind # "ts"

\* pd.to_datetime(a datetime.date): midnight of that day
DateToTimestamp(d) == Timestamp(d, 0)

\* comparison of two Timestamps
TsLeq(a, b) == a.dia < b.dia \/ (a.dia = b.dia /\ a.min <= b.min)

\* Series.dt.date
DiaDe(cell) == cell.dia

-----------------------------------------------------------------------------
(* Strings, character by character *)

Minusculas == <<"a","b","c","d","e","f","g","h","i","j","k","l","m","n","o",
                "p","q","r","s","t","u","v","w","x","y","z","ã","í">>
Maiusculas == <<"A","B","C","D","E","F","G","H","I","J","K","L","M","N","O",
                "P","Q","R","S","T","U","V","W","X","Y","Z","Ã","Í">>

\* the characters of the model in code point order (what sorting compares)
OrdemChars == <<" ">> \o SubSeq(Maiusculas, 1, 26) \o SubSeq(Minusculas, 1, 26)
              \o <<"Ã", "Í", "ã", "í">>

IndexOf(seq, x) == CHOOSE i \in 1..Len(seq) : seq[i] = x

UpperChar(c) ==
    IF \E i \in 1..Len(Minusculas) : Minusculas[i] = c
    THEN Maiusculas[IndexOf(Minusculas, c)]
    ELSE c

\* str.upper()
Upper(s) == [i \in 1..Len(s) |-> UpperChar(s[i])]

IsSpace(c) == c = " "

RECURSIVE LStrip(_)
LStrip(s) == IF s # <<>> /\ IsSpace(Head(s)) THEN LStrip(Tail(s)) ELSE s

RECURSIVE RStrip(_)
RStrip(s) ==
    IF s # <<>> /\ IsSpace(s[Len(s)]) THEN RStrip(SubSeq(s, 1, Len(s) - 1)) ELSE s

\* str.strip()
Strip(s) == RStrip(LStrip(s))

\* \w of the regular expressions: every character of the model but the space
IsWord(c) == ~IsSpace(c)

WordAt(s, p) == p >= 1 /\ p <= Len(s) /\ IsWord(s[p])

\* \b between s[p-1] and s[p]
Boundary(s, p) == WordAt(s, p - 1) # WordAt(s, p)

\* \bpat\b matches at position i
MatchAt(s, pat, i) ==
    /\ i + Len(pat) - 1 <= Len(s)
    /\ SubSeq(s, i, i + Len(pat) - 1) = pat
    /\ Boundary(s, i)
    /\ Boundary(s, i + Len(pat))

RECURSIVE ReplaceFrom(_, _, _, _)
ReplaceFrom(s, pat, rep, i) ==
    IF i > Len(s) THEN <<>>
    ELSE IF MatchAt(s, pat, i)
         THEN rep \o ReplaceFrom(s, pat, rep, i + Len(pat))
         ELSE <<s[i]>> \o ReplaceFrom(s, pat, rep, i + 1)

\* Series.str.replace(r"\bpat\b", rep, regex=True): every non-overlapping
\* match, leftmost first
StrReplace(s, pat, rep) == ReplaceFrom(s, pat, rep, 1)

VINICIUS == <<"V","I","N","I","C","I","U","S">>
VINICIUS_ACENTO == <<"V","I","N","Í","C","I","U","S">>
MARCOS == <<"M","A","R","C","O","S">>
NASCIMENTO == <<"N","A","S","C","I","M","E","N","T","O">>
MARCOS_NASCIMENTO == MARCOS \o <<" ">> \o NASCIMENTO

\* astype(str) of a missing cell (pandas below 3, which applymap requires)
NAN_STR == <<"n","a","n">>

\* Series.astype(str): a missing cell becomes the text "nan"
AsTypeStr(cell) == IF cell.na THEN Text(NAN_STR) ELSE cell

\* lines 99-105, on one cell
PadronizarMotorista(cell) ==
    LET c0 == AsTypeStr(cell)
        s1 == Strip(Upper(c0.s))
        s2 == StrReplace(s1, VINICIUS, VINICIUS_ACENTO)
        s3 == StrReplace(s2, MARCOS_NASCIMENTO, MARCOS)
    IN  [na |-> c0.na, s |-> s3]

-----------------------------------------------------------------------------
(* limpar_e_filtrar_dados *)

\* pd.to_datetime(..., errors="coerce") on one cell of DATA: a Timestamp is
\* kept, a missing cell and a text that is no date become NaT
ToDatetime(cell) == IF cell.kind = "ts" THEN cell ELSE NaT

\* lines 96-105: the two column assignments, which write into the caller's
\* DataFrame
Padronizar(dados) ==
    [i \in 1..Len(dados) |->
        [dados[i] EXCEPT !.DATA = ToDatetime(@),
                         !.MOTORISTA = PadronizarMotorista(@)]]

\* DataFrame.dropna(subset=["MOTORISTA", "DATA"])
DropNa(dados) == SelectSeq(dados, LAMBDA r : ~r.MOTORISTA.na /\ ~IsNaT(r.DATA))

\* line 113
NoIntervalo(r, ini, fim) ==
    /\ TsLeq(DateToTimestamp(ini), r.DATA)
    /\ TsLeq(r.DATA, DateToTimestamp(fim))

\* lines 111-114
FiltroTemporal(dados, ini, fim) ==
    SelectSeq(dados, LAMBDA r : NoIntervalo(r, ini, fim))

\* the check of line 116 written so that it never holds
SemRegistrosNunca(df) == Len(df) < 0

\* line 116
SemRegistros(df) == Len(df) = 0

\* the whole function: ok = FALSE is the ValueError of line 117; dados is
\* the caller's DataFrame as the function leaves it
limpar_e_filtrar_dados(dados, ini, fim) ==
    LET padronizado == Padronizar(dados)
        filtrados == FiltroTemporal(DropNa(padronizado), ini, fim)
    IN  [ok |-> ~SemRegistros(filtrados),
         df |-> IF SemRegistros(filtrados) THEN <<>> ELSE filtrados,
         dados |-> padronizado]

-----------------------------------------------------------------------------
(* Numbers *)

\* a float before round(2): n/d cents
Frac(n, d) == [na |-> FALSE, n |-> n, d |-> d]
NaNFrac == [na |-> TRUE, n |-> 0, d |-> 1]

\* n/d rounded to the nearest integer, a tie to the even one (n >= 0, d > 0)
RoundHalfEven(n, d) ==
    LET q == n \div d
        r == n % d
    IN  IF 2 * r < d THEN q
        ELSE IF 2 * r > d THEN q + 1
        ELSE IF q % 2 = 0 THEN q ELSE q + 1

\* ndarray.round(2): NaN stays NaN; the result is in cents
Round2(x) == IF x.na THEN NaN ELSE Num(RoundHalfEven(x.n, x.d))

\* QUANT. * 1.0: thousandths, so a tenth of that in cents
QuantVezes1(q) == IF q.na THEN NaNFrac ELSE Frac(q.v, 10)

\* TOTAL (R$) * 0.02: cents, so 2/100 of that in cents
TotalVezes002(t) == IF t.na THEN NaNFrac ELSE Frac(2 * t.v, 100)

\* Series.sum() and the "sum" of agg: missing values are skipped
RECURSIVE SomaCol(_, _)
SomaCol(rows, col) ==
    IF rows = <<>> THEN 0
    ELSE (IF Head(rows)[col].na THEN 0 ELSE Head(rows)[col].v)
         + SomaCol(Tail(rows), col)

\* the "count" of agg: the cells that are not missing
ContaCol(rows, col) == Len(SelectSeq(rows, LAMBDA r : ~r[col].na))

\* sum of a column of a summary table, whose cells are plain numbers
RECURSIVE SomaCampo(_, _)
SomaCampo(rows, col) ==
    IF rows = <<>> THEN 0 ELSE Head(rows)[col] + SomaCampo(Tail(rows), col)

-----------------------------------------------------------------------------
(* Ordering of keys *)

Rank(c) == IndexOf(OrdemChars, c)

\* a < b for two driver names, as Python compares str
RECURSIVE StrLess(_, _)
StrLess(a, b) ==
    IF b = <<>> THEN FALSE
    ELSE IF a = <<>> THEN TRUE
    ELSE IF Head(a) = Head(b) THEN StrLess(Tail(a), Tail(b))
    ELSE Rank(Head(a)) < Rank(Head(b))

\* the cost centres of the model, in the order their names sort
OrdemCentros == <<"AREIA", "FRETE ADITIVO", "FRETE BRITA", "FRETE CIMENTO",
                  "OUTROS">>

CentroLess(a, b) == IndexOf(OrdemCentros, a) < IndexOf(OrdemCentros, b)

\* a < b for two keys (MOTORISTA, CENTRO DE CUSTO)
ChaveLess(a, b) ==
    StrLess(a[1], b[1]) \/ (a[1] = b[1] /\ CentroLess(a[2], b[2]))

\* a < b for two keys of the groupby over the columns cols
Menor(cols, a, b) ==
    IF cols = "MOTORISTA" THEN StrLess(a, b)
    ELSE IF cols = "CENTRO" THEN CentroLess(a, b)
    ELSE ChaveLess(a, b)

\* the keys of a groupby (sort=True): the elements of S in ascending order
Ordenar(S, cols) ==
    [i \in 1..Cardinality(S) |->
        CHOOSE x \in S : Cardinality({ y \in S : Menor(cols, y, x) }) = i - 1]

\* DataFrame.sort_values(col, ascending=False); rows with equal values keep
\* their order (numpy sorts so short a column by insertion)
RECURSIVE InsertDesc(_, _, _)
InsertDesc(sorted, r, col) ==
    IF sorted = <<>> THEN <<r>>
    ELSE IF Head(sorted)[col] >= r[col]
         THEN <<Head(sorted)>> \o InsertDesc(Tail(sorted), r, col)
         ELSE <<r>> \o sorted

RECURSIVE SortValuesDesc(_, _)
SortValuesDesc(rows, col) ==
    IF rows = <<>> THEN <<>>
    ELSE InsertDesc(SortValuesDesc(SubSeq(rows, 1, Len(rows) - 1), col),
                    rows[Len(rows)], col)

-----------------------------------------------------------------------------
(* calcular_bonus *)

\* Series.isin(values): a missing cell is in no list
IsIn(cell, values) == ~cell.na /\ cell.s \in values

\* the first list of line 129 without AREIA
ConditionsSemAreia(r) ==
    << IsIn(r.CENTRO, {"FRETE BRITA"}),
       IsIn(r.CENTRO, {"FRETE CIMENTO", "FRETE ADITIVO"}) >>

\* lines 128-131, on one row
Conditions(r) ==
    << IsIn(r.CENTRO, {"FRETE BRITA", "AREIA"}),
       IsIn(r.CENTRO, {"FRETE CIMENTO", "FRETE ADITIVO"}) >>

\* lines 132-135, on one row
Calculos(r) == << QuantVezes1(r.QUANT), TotalVezes002(r.TOTAL) >>

\* np.select on one row: the choice of the first condition that holds
RECURSIVE NpSelect(_, _, _)
NpSelect(condlist, choicelist, default) ==
    IF condlist = <<>> THEN default
    ELSE IF Head(condlist) THEN Head(choicelist)
    ELSE NpSelect(Tail(condlist), Tail(choicelist), default)

\* line 137, on one row
BonusDaLinha(r) == Round2(NpSelect(Conditions(r), Calculos(r), Frac(0, 1)))

\* line 137: the new column, written into the DataFrame that was passed
ComBonus(df) ==
    [i \in 1..Len(df) |->
        [idx |-> df[i].idx, MOTORISTA |-> df[i].MOTORISTA,
         CENTRO |-> df[i].CENTRO, DATA |-> df[i].DATA, QUANT |-> df[i].QUANT,
         TOTAL |-> df[i].TOTAL, BONUS |-> BonusDaLinha(df[i])]]

\* the groups of groupby(["MOTORISTA", "CENTRO DE CUSTO"]): dropna=True
\* leaves out the rows whose key has a missing part
ChavesDetalhe(df) ==
    { <<df[i].MOTORISTA.s, df[i].CENTRO.s>> :
        i \in { j \in 1..Len(df) : ~df[j].MOTORISTA.na /\ ~df[j].CENTRO.na } }

\* the detail grouped by the driver alone
GrupoDetalheSoMotorista(df, k) ==
    SelectSeq(df, LAMBDA r : /\ ~r.MOTORISTA.na /\ ~r.CENTRO.na
                             /\ r.MOTORISTA.s = k[1])

GrupoDetalhe(df, k) ==
    SelectSeq(df, LAMBDA r : /\ ~r.MOTORISTA.na /\ ~r.CENTRO.na
                             /\ r.MOTORISTA.s = k[1] /\ r.CENTRO.s = k[2])

\* lines 140-145, before BONUS TOTAL is added
TabelaBase(df) ==
    LET chaves == Ordenar(ChavesDetalhe(df), "MOTORISTA_CENTRO")
    IN  [i \in 1..Len(chaves) |->
            LET g == GrupoDetalhe(df, chaves[i])
            IN  [MOTORISTA |-> chaves[i][1],
                 CENTRO |-> chaves[i][2],
                 VIAGENS |-> ContaCol(g, "QUANT"),
                 QUANT |-> RoundHalfEven(SomaCol(g, "QUANT"), 10),
                 FATURAMENTO |-> SomaCol(g, "TOTAL"),
                 BONUS |-> SomaCol(g, "BONUS")]]

ChavesMotorista(df) ==
    { df[i].MOTORISTA.s : i \in { j \in 1..Len(df) : ~df[j].MOTORISTA.na } }

GrupoMotorista(df, m) ==
    SelectSeq(df, LAMBDA r : ~r.MOTORISTA.na /\ r.MOTORISTA.s = m)

\* lines 148-151
BonusMotorista(df) ==
    LET chaves == Ordenar(ChavesMotorista(df), "MOTORISTA")
        linhas == [i \in 1..Len(chaves) |->
                    LET g == GrupoMotorista(df, chaves[i])
                    IN  [MOTORISTA |-> chaves[i],
                         VIAGENS |-> ContaCol(g, "QUANT"),
                         BONUS |-> SomaCol(g, "BONUS")]]
    IN  SortValuesDesc(linhas, "BONUS")

\* Index.map(Series): the value of the row labelled m, missing when no row is
MapBonus(bm, m) ==
    IF \E i \in 1..Len(bm) : bm[i].MOTORISTA = m
    THEN Num(bm[CHOOSE i \in 1..Len(bm) : bm[i].MOTORISTA = m].BONUS)
    ELSE NaN

\* x.index[0] of the group of row i: the first row of the same driver
PrimeiraDoGrupo(tab, i) ==
    CHOOSE j \in 1..Len(tab) :
        /\ tab[j].MOTORISTA = tab[i].MOTORISTA
        /\ \A k \in 1..(j - 1) : tab[k].MOTORISTA # tab[i].MOTORISTA

\* lines 154-159
ComBonusTotal(tab, bm) ==
    [i \in 1..Len(tab) |->
        [MOTORISTA |-> tab[i].MOTORISTA, CENTRO |-> tab[i].CENTRO,
         VIAGENS |-> tab[i].VIAGENS, QUANT |-> tab[i].QUANT,
         FATURAMENTO |-> tab[i].FATURAMENTO, BONUS |-> tab[i].BONUS,
         BONUS_TOTAL |->
            IF <<tab[i].MOTORISTA, tab[i].CENTRO>>
               = <<tab[PrimeiraDoGrupo(tab, i)].MOTORISTA,
                   tab[PrimeiraDoGrupo(tab, i)].CENTRO>>
            THEN MapBonus(bm, tab[i].MOTORISTA)
            ELSE NaN]]

ChavesCentro(df) ==
    { df[i].CENTRO.s : i \in { j \in 1..Len(df) : ~df[j].CENTRO.na } }

GrupoCentro(df, c) == SelectSeq(df, LAMBDA r : ~r.CENTRO.na /\ r.CENTRO.s = c)

\* the per-cost-centre summary adding up TOTAL (R$) instead of BONUS
ResumoCentroCustoColunaErrada(df) ==
    LET chaves == Ordenar(ChavesCentro(df), "CENTRO")
        linhas == [i \in 1..Len(chaves) |->
                    [CENTRO |-> chaves[i],
                     BONUS_TOTAL |-> SomaCol(GrupoCentro(df, chaves[i]), "TOTAL")]]
    IN  SortValuesDesc(linhas, "BONUS_TOTAL")

\* lines 162-167
ResumoCentroCusto(df) ==
    LET chaves == Ordenar(ChavesCentro(df), "CENTRO")
        linhas == [i \in 1..Len(chaves) |->
                    [CENTRO |-> chaves[i],
                     BONUS_TOTAL |-> SomaCol(GrupoCentro(df, chaves[i]), "BONUS")]]
    IN  SortValuesDesc(linhas, "BONUS_TOTAL")

\* the whole function; df is the DataFrame passed, with its new column
calcular_bonus(dados) ==
    LET df == ComBonus(dados)
        bm == BonusMotorista(df)
    IN  [df |-> df,
         tabela |-> ComBonusTotal(TabelaBase(df), bm),
         bonus_motorista |-> bm,
         resumo_centro_custo |-> ResumoCentroCusto(df)]

-----------------------------------------------------------------------------
(* gerar_nome_periodo, tabela_dias_trabalhados *)

meses_pt == <<"Janeiro", "Fevereiro", "Março", "Abril", "Maio", "Junho",
              "Julho", "Agosto", "Setembro", "Outubro", "Novembro",
              "Dezembro">>

\* date.day, date.month, date.year of the days of the model: January 2024
DayOf(d) == d
MonthOf(d) == 1
YearOf(d) == 2024

\* the three formats of lines 198-204, with the values they interpolate
gerar_nome_periodo(ini, fim) ==
    LET dia_i == DayOf(ini)
        mes_i == meses_pt[MonthOf(ini)]
        ano_i == YearOf(ini)
        dia_f == DayOf(fim)
        mes_f == meses_pt[MonthOf(fim)]
        ano_f == YearOf(fim)
    IN  IF ano_i = ano_f
        THEN IF mes_i = mes_f
             THEN <<dia_i, "a", dia_f, "de", mes_i, "de", ano_i>>
             ELSE <<dia_i, "de", mes_i, "a", dia_f, "de", mes_f, "de", ano_i>>
        ELSE <<dia_i, "de", mes_i, "de", ano_i, "a",
               dia_f, "de", mes_f, "de", ano_f>>

\* lines 364-373
tabela_dias_trabalhados(df) ==
    LET chaves == Ordenar(ChavesMotorista(df), "MOTORISTA")
    IN  [i \in 1..Len(chaves) |->
            [Motorista |-> chaves[i],
             DiasTrabalhados |->
                Cardinality({ DiaDe(df[j].DATA) :
                    j \in { k \in 1..Len(df) : df[k].MOTORISTA.s = chaves[i] } })]]

-----------------------------------------------------------------------------
(* What can be uploaded *)

Linha(m, c, d, q, t) ==
    [MOTORISTA |-> m, CENTRO |-> c, DATA |-> d, QUANT |-> q, TOTAL |-> t]

\* every sheet of at most MaxRecs rows drawn from Pool
Planilhas(Pool) == UNION { [1..n -> Pool] : n \in 0..MaxRecs }

ANA == <<"A","N","A">>
ana == <<"a","n","a">>
BIA == <<"B","I","A">>
vinicius_espaco == <<"v","i","n","i","c","i","u","s"," ">>
Marcos_Nascimento ==
    <<"M","a","r","c","o","s"," ","N","a","s","c","i","m","e","n","t","o">>
MARCOS_NASCIMENTO_NASCIMENTO == MARCOS_NASCIMENTO \o <<" ">> \o NASCIMENTO

Centro(c) == [na |-> FALSE, s |-> c]

\* rows that differ in driver, cost centre and quantity, all of day 1
LinhasBonus ==
    { Linha(m, c, Timestamp(1, 0), q, Num(125)) :
        m \in {Text(ana), Text(BIA), NaText},
        c \in {Centro("FRETE BRITA"), Centro("FRETE CIMENTO"),
               Centro("OUTROS"), NaCentro},
        q \in {NaN, Num(1005)} }

\* rows of one driver that differ in cost centre, quantity and value
LinhasRegra ==
    { Linha(Text(ANA), c, Timestamp(1, 0), q, t) :
        c \in { Centro(OrdemCentros[i]) : i \in 1..Len(OrdemCentros) }
              \cup {NaCentro},
        q \in {NaN, Num(1005)},
        t \in {Num(125), Num(100000)} }

\* rows that differ in what the cleaning looks at: driver and date
LinhasLimpeza ==
    { Linha(m, c, d, Num(1005), Num(125)) :
        m \in {NaText, Text(ANA), Text(vinicius_espaco),
               Text(Marcos_Nascimento), Text(MARCOS_NASCIMENTO_NASCIMENTO)},
        c \in {Centro("FRETE BRITA"), NaCentro},
        d \in {NaT, TextoNaoData}
              \cup { Timestamp(dd, mm) : dd \in Dias, mm \in Minutos } }

\* the widget: nothing uploaded, a file read_excel cannot read, or a sheet
Uploads(Pool) ==
    { [estado |-> "nenhum", linhas |-> <<>>],
      [estado |-> "ilegivel", linhas |-> <<>>] }
    \cup { [estado |-> "ok", linhas |-> p] : p \in Planilhas(Pool) }

-----------------------------------------------------------------------------
(* The script *)

InitWith(Pool) ==
    /\ uploaded_files \in Uploads(Pool)
    /\ pc = "start"
    /\ dados_raw = <<>>
    /\ data_ini = 0
    /\ data_fim = 0
    /\ dados_filtrados = <<>>
    /\ tabela = <<>>
    /\ bonus_motorista = <<>>
    /\ resumo_centro_custo = <<>>
    /\ nome_periodo = <<>>
    /\ tabela_dias = <<>>
    /\ erro = ""
    /\ exibido = {}
    /\ calls = {}

Init == InitWith(LinhasBonus)
InitRegra == InitWith(LinhasRegra)
InitLimpeza == InitWith(LinhasLimpeza)

Call(fn) == [fn |-> fn, ini |-> data_ini, fim |-> data_fim]

\* pd.concat(dfs, ignore_index=True): the rows, labelled 0, 1, ...
carregar_arquivos(files) ==
    [i \in 1..Len(files.linhas) |->
        [idx |-> i - 1,
         MOTORISTA |-> files.linhas[i].MOTORISTA,
         CENTRO |-> files.linhas[i].CENTRO,
         DATA |-> files.linhas[i].DATA,
         QUANT |-> files.linhas[i].QUANT,
         TOTAL |-> files.linhas[i].TOTAL]]

\* the guard of line 433 with the comparison the other way round
IntervaloInvalidoInvertido(ini, fim) == ini < fim

\* line 433
IntervaloInvalido(ini, fim) == ini > fim

\* lines 407, 523-524: nothing was uploaded
SemArquivos ==
    /\ pc = "start"
    /\ uploaded_files.estado = "nenhum"
    /\ pc' = "done"
    /\ UNCHANGED <<uploaded_files, dados_raw, data_ini, data_fim,
                   dados_filtrados, tabela, bonus_motorista,
                   resumo_centro_custo, nome_periodo, tabela_dias, erro,
                   exibido, calls>>

\* lines 407-416: carregar_arquivos, which reports and re-raises what
\* read_excel raises; the script then stops
CarregarArquivos ==
    /\ pc = "start"
    /\ uploaded_files.estado # "nenhum"
    /\ calls' = calls \cup {Call("carregar_arquivos")}
    /\ IF uploaded_files.estado = "ilegivel"
       THEN /\ erro' = "Erro ao ler o arquivo"
            /\ pc' = "stopped"
            /\ UNCHANGED dados_raw
       ELSE /\ dados_raw' = carregar_arquivos(uploaded_files)
            /\ pc' = "loaded"
            /\ UNCHANGED erro
    /\ UNCHANGED <<uploaded_files, data_ini, data_fim, dados_filtrados,
                   tabela, bonus_motorista, resumo_centro_custo,
                   nome_periodo, tabela_dias, exibido>>

\* lines 430-435: the two dates the user picked, and the guard
EscolherDatas ==
    /\ pc = "loaded"
    /\ \E ini \in Dias, fim \in Dias :
        /\ data_ini' = ini
        /\ data_fim' = fim
        /\ IF IntervaloInvalido(ini, fim)
           THEN /\ erro' = "A data inicial não pode ser maior que a data final."
                /\ pc' = "stopped"
           ELSE /\ pc' = "range_ok"
                /\ UNCHANGED erro
    /\ UNCHANGED <<uploaded_files, dados_raw, dados_filtrados, tabela,
                   bonus_motorista, resumo_centro_custo, nome_periodo,
                   tabela_dias, exibido, calls>>

\* line 437: the button was not pressed in this run
SemClique ==
    /\ pc = "range_ok"
    /\ pc' = "done"
    /\ UNCHANGED <<uploaded_files, dados_raw, data_ini, data_fim,
                   dados_filtrados, tabela, bonus_motorista,
                   resumo_centro_custo, nome_periodo, tabela_dias, erro,
                   exibido, calls>>

\* lines 437-440, 449-451: the button was pressed; limpar_e_filtrar_dados
LimparEFiltrar ==
    /\ pc = "range_ok"
    /\ calls' = calls \cup {Call("limpar_e_filtrar_dados")}
    /\ LET r == limpar_e_filtrar_dados(dados_raw, data_ini, data_fim)
       IN  /\ dados_raw' = r.dados
           /\ IF r.ok
              THEN /\ dados_filtrados' = r.df
                   /\ pc' = "filtered"
                   /\ UNCHANGED erro
              ELSE /\ erro' = "Nenhum registro no intervalo de datas selecionado."
                   /\ pc' = "stopped"
                   /\ UNCHANGED dados_filtrados
    /\ UNCHANGED <<uploaded_files, data_ini, data_fim, tabela,
                   bonus_motorista, resumo_centro_custo, nome_periodo,
                   tabela_dias, exibido>>

\* lines 441-443
CalcularBonus ==
    /\ pc = "filtered"
    /\ calls' = calls \cup {Call("calcular_bonus")}
    /\ LET r == calcular_bonus(dados_filtrados)
       IN  /\ dados_filtrados' = r.df
           /\ tabela' = r.tabela
           /\ bonus_motorista' = r.bonus_motorista
           /\ resumo_centro_custo' = r.resumo_centro_custo
    /\ pc' = "bonus"
    /\ UNCHANGED <<uploaded_files, dados_raw, data_ini, data_fim,
                   nome_periodo, tabela_dias, erro, exibido>>

\* line 444
GerarNomePeriodo ==
    /\ pc = "bonus"
    /\ calls' = calls \cup {Call("gerar_nome_periodo")}
    /\ nome_periodo' = gerar_nome_periodo(data_ini, data_fim)
    /\ pc' = "nome"
    /\ UNCHANGED <<uploaded_files, dados_raw, data_ini, data_fim,
                   dados_filtrados, tabela, bonus_motorista,
                   resumo_centro_custo, tabela_dias, erro, exibido>>

\* lines 445-447: the three figures
Graficos ==
    /\ pc = "nome"
    /\ calls' = calls \cup {Call("grafico_bonus_motoristas"),
                            Call("grafico_faturamento"),
                            Call("grafico_heatmap_trabalho")}
    /\ pc' = "graficos"
    /\ UNCHANGED <<uploaded_files, dados_raw, data_ini, data_fim,
                   dados_filtrados, tabela, bonus_motorista,
                   resumo_centro_custo, nome_periodo, tabela_dias, erro,
                   exibido>>

\* line 448
TabelaDias ==
    /\ pc = "graficos"
    /\ calls' = calls \cup {Call("tabela_dias_trabalhados")}
    /\ tabela_dias' = tabela_dias_trabalhados(dados_filtrados)
    /\ pc' = "dias"
    /\ UNCHANGED <<uploaded_files, dados_raw, data_ini, data_fim,
                   dados_filtrados, tabela, bonus_motorista,
                   resumo_centro_custo, nome_periodo, erro, exibido>>

\* lines 456-521: the tables, the figures and the download
Exibir ==
    /\ pc = "dias"
    /\ calls' = calls \cup {Call("gerar_excel_para_download")}
    /\ exibido' = {"dados_filtrados", "tabela", "bonus_motorista",
                   "resumo_centro_custo", "fig_bonus", "fig_fat", "fig_heat",
                   "tabela_dias", "download"}
    /\ pc' = "done"
    /\ UNCHANGED <<uploaded_files, dados_raw, data_ini, data_fim,
                   dados_filtrados, tabela, bonus_motorista,
                   resumo_centro_custo, nome_periodo, tabela_dias, erro>>

Next ==
    \/ SemArquivos
    \/ CarregarArquivos
    \/ EscolherDatas
    \/ SemClique
    \/ LimparEFiltrar
    \/ CalcularBonus
    \/ GerarNomePeriodo
    \/ Graficos
    \/ TabelaDias
    \/ Exibir

Spec == Init /\ [][Next]_vars
SpecRegra == InitRegra /\ [][Next]_vars
SpecLimpeza == InitLimpeza /\ [][Next]_vars

-----------------------------------------------------------------------------
(* Vocabulary of the properties *)

Chamou(fn) == \E c \in calls : c.fn = fn

\* limpar_e_filtrar_dados was called and returned a table
Filtrado == Chamou("limpar_e_filtrar_dados") /\ pc # "stopped"

\* calcular_bonus has returned
Calculado == Chamou("calcular_bonus")

\* the uploaded row from which the row labelled idx comes
Bruta(idx) == uploaded_files.linhas[idx + 1]

MotoristasResumo == { bonus_motorista[i].MOTORISTA : i \in 1..Len(bonus_motorista) }

LinhasDe(d) == { i \in 1..Len(tabela) : tabela[i].MOTORISTA = d }

RegistrosDe(d) ==
    { i \in 1..Len(dados_filtrados) : dados_filtrados[i].MOTORISTA.s = d }

ResumoDe(d) ==
    bonus_motorista[CHOOSE i \in 1..Len(bonus_motorista) :
                        bonus_motorista[i].MOTORISTA = d]

RECURSIVE SomaSobre(_, _)
SomaSobre(I, f) ==
    IF I = {} THEN 0
    ELSE LET i == CHOOSE x \in I : TRUE IN f[i] + SomaSobre(I \ {i}, f)

-----------------------------------------------------------------------------
(* C1: once calcular_bonus has returned, the sum of BONUS over the         *)
(* per-driver summary, the sum of BONUS_TOTAL over the per-cost-centre     *)
(* summary and the sum of the BONUS of the filtered records (a sum that    *)
(* skips missing values, as every sum of the program does) are the same    *)
(* number of cents.                                                        *)
C1_TotaisIguais ==
    Calculado =>
        /\ SomaCampo(bonus_motorista, "BONUS")
             = SomaCampo(resumo_centro_custo, "BONUS_TOTAL")
        /\ SomaCampo(bonus_motorista, "BONUS")
             = SomaSobre(1..Len(dados_filtrados),
                   [i \in 1..Len(dados_filtrados) |->
                       IF dados_filtrados[i].BONUS.na THEN 0
                       ELSE dados_filtrados[i].BONUS.v])

\* a record that pays a bonus beside a record that is in no row of the
\* detailed table
C1_Witness ==
    /\ Calculado
    /\ Len(tabela) >= 1
    /\ Len(dados_filtrados) > Len(tabela)
    /\ \E i \in 1..Len(dados_filtrados) : dados_filtrados[i].CENTRO.na
    /\ SomaCampo(bonus_motorista, "BONUS") > 0

(* C2: in the detailed table, every driver of the per-driver summary has   *)
(* exactly one row whose BONUS TOTAL is not missing; it is the first row   *)
(* of the driver, its value is the driver's BONUS of the summary, and the  *)
(* other rows of the driver are missing.                                   *)
C2_UmaLinhaComTotal ==
    Calculado =>
        \A d \in MotoristasResumo :
            LET com == { i \in LinhasDe(d) : ~tabela[i].BONUS_TOTAL.na }
            IN  /\ Cardinality(com) = 1
                /\ \A i \in com :
                    /\ \A j \in LinhasDe(d) : i <= j
                    /\ tabela[i].BONUS_TOTAL.v = ResumoDe(d).BONUS

(* C3: for every driver of the per-driver summary, the BONUS of the        *)
(* driver's rows of the detailed table add up to the driver's BONUS of     *)
(* the summary.                                                            *)
C3_DetalheSomaResumo ==
    Calculado =>
        \A d \in MotoristasResumo :
            SomaSobre(LinhasDe(d), [i \in 1..Len(tabela) |-> tabela[i].BONUS])
              = ResumoDe(d).BONUS

\* a driver with two rows of detail and a record left out of the detail
C3_Witness ==
    /\ Calculado
    /\ \E d \in MotoristasResumo :
        /\ Cardinality(LinhasDe(d)) = 2
        /\ ResumoDe(d).BONUS > 0
        /\ \A i \in LinhasDe(d) : tabela[i].BONUS > 0

(* C4: no record whose uploaded driver is missing, or whose date is        *)
(* missing or not a date, is in the table limpar_e_filtrar_dados returns,  *)
(* and so no driver of the per-driver summary comes only from such         *)
(* records.                                                                *)
RegistroValido(r) == ~r.MOTORISTA.na /\ r.DATA.kind = "ts"

C4_SemInvalidos ==
    /\ Filtrado =>
        \A i \in 1..Len(dados_filtrados) :
            RegistroValido(Bruta(dados_filtrados[i].idx))
    /\ Calculado =>
        \A d \in MotoristasResumo :
            \E i \in 1..Len(uploaded_files.linhas) :
                /\ RegistroValido(uploaded_files.linhas[i])
                /\ PadronizarMotorista(uploaded_files.linhas[i].MOTORISTA).s = d

(* C5: the date filter keeps every record with a driver whose calendar     *)
(* day is within [data_ini, data_fim], whatever its time of day, and       *)
(* leaves out every record whose calendar day is outside.                  *)
Retidos == { dados_filtrados[i].idx : i \in 1..Len(dados_filtrados) }

C5_FiltroPorDia ==
    (Chamou("limpar_e_filtrar_dados") /\ ~Calculado) =>
        \A i \in 1..Len(uploaded_files.linhas) :
            LET r == uploaded_files.linhas[i]
            IN  /\ (/\ RegistroValido(r)
                    /\ data_ini <= r.DATA.dia
                    /\ r.DATA.dia <= data_fim) => (i - 1) \in Retidos
                /\ (/\ r.DATA.kind = "ts"
                    /\ (r.DATA.dia < data_ini \/ r.DATA.dia > data_fim))
                      => (i - 1) \notin Retidos

(* C6: limpar_e_filtrar_dados applied to the table it returned, with the   *)
(* same range, returns that table.                                         *)
C6_Idempotente ==
    (Filtrado /\ pc = "filtered") =>
        LET r == limpar_e_filtrar_dados(dados_filtrados, data_ini, data_fim)
        IN  r.ok /\ r.df = dados_filtrados

(* C7: the BONUS of a record is its quantity for FRETE BRITA and AREIA,    *)
(* two percent of its total for FRETE CIMENTO and FRETE ADITIVO and zero   *)
(* for any other or missing cost centre, rounded to cents; at most one of  *)
(* the two conditions holds for a record.                                  *)
C7_Esperado(r) ==
    IF ~r.CENTRO.na /\ r.CENTRO.s \in {"FRETE BRITA", "AREIA"}
    THEN (IF r.QUANT.na THEN NaN ELSE Num(RoundHalfEven(r.QUANT.v, 10)))
    ELSE IF ~r.CENTRO.na /\ r.CENTRO.s \in {"FRETE CIMENTO", "FRETE ADITIVO"}
    THEN (IF r.TOTAL.na THEN NaN ELSE Num(RoundHalfEven(2 * r.TOTAL.v, 100)))
    ELSE Num(0)

C7_RegraPorRegistro ==
    Calculado =>
        \A i \in 1..Len(dados_filtrados) :
            /\ dados_filtrados[i].BONUS = C7_Esperado(Bruta(dados_filtrados[i].idx))
            /\ ~(Conditions(dados_filtrados[i])[1] /\ Conditions(dados_filtrados[i])[2])

\* one record of each paying category, and one that pays nothing
C7_Witness ==
    /\ Calculado
    /\ \E i, j \in 1..Len(dados_filtrados) :
        /\ dados_filtrados[i].CENTRO = Centro("AREIA")
        /\ dados_filtrados[i].BONUS = Num(100)
        /\ dados_filtrados[j].CENTRO = Centro("FRETE ADITIVO")
        /\ dados_filtrados[j].BONUS = Num(2000)

(* C8: when no record is left after the cleaning and the date filter,      *)
(* the run that called limpar_e_filtrar_dados has stopped with the error   *)
(* reported, has called none of calcular_bonus, the chart builders,        *)
(* tabela_dias_trabalhados and the export, and has produced and shown no   *)
(* table.                                                                  *)
C8_VazioPara ==
    (/\ Chamou("limpar_e_filtrar_dados")
     /\ Len(FiltroTemporal(DropNa(Padronizar(dados_raw)), data_ini, data_fim)) = 0)
    =>  /\ pc = "stopped"
        /\ erro = "Nenhum registro no intervalo de datas selecionado."
        /\ \A c \in calls : c.fn \in {"carregar_arquivos", "limpar_e_filtrar_dados"}
        /\ exibido = {}
        /\ dados_filtrados = <<>> /\ tabela = <<>> /\ bonus_motorista = <<>>
        /\ resumo_centro_custo = <<>> /\ tabela_dias = <<>>

\* records were uploaded and none is in the range
C8_Witness ==
    /\ Chamou("limpar_e_filtrar_dados")
    /\ pc = "stopped"
    /\ Len(dados_raw) = MaxRecs
    /\ erro = "Nenhum registro no intervalo de datas selecionado."

(* C9: a range with data_ini > data_fim is reported and stops the run, and *)
(* limpar_e_filtrar_dados, calcular_bonus and gerar_nome_periodo are only  *)
(* called with data_ini <= data_fim.                                       *)
C9_IntervaloGuardado ==
    /\ \A c \in calls :
        c.fn \in {"limpar_e_filtrar_dados", "calcular_bonus", "gerar_nome_periodo"}
            => c.ini <= c.fim
    /\ data_ini > data_fim =>
        /\ pc = "stopped"
        /\ erro = "A data inicial não pode ser maior que a data final."
        /\ \A c \in calls : c.fn = "carregar_arquivos"

C9_Witness ==
    /\ data_ini > data_fim
    /\ pc = "stopped"
    /\ Len(dados_raw) > 0

(* C10: for every driver of the per-driver summary, the VIAGENS of the     *)
(* driver's rows of the detailed table add up to the driver's VIAGENS of   *)
(* the summary, which is the number of the driver's filtered records.      *)
C10_ViagensContadas ==
    Calculado =>
        \A d \in MotoristasResumo :
            /\ SomaSobre(LinhasDe(d),
                         [i \in 1..Len(tabela) |-> tabela[i].VIAGENS])
                 = ResumoDe(d).VIAGENS
            /\ ResumoDe(d).VIAGENS = Cardinality(RegistrosDe(d))

====
